---- MODULE Spec2Model ----
(***************************************************************************)
(* A model of the SOLR client of solr_mcp_server (solr_client.py): the     *)
(* construction of the client with its probe retry loop, the operations    *)
(* of a constructed client (ping, search, suggest_query,                   *)
(* get_schema_fields, get_collection_stats, close), the query builder of   *)
(* search() and the reply normalizer _process_search_response().           *)
(*                                                                         *)
(* The engine is the environment: every exchange with it either returns a  *)
(* raw reply or raises an exception, chosen nondeterministically.          *)
(***************************************************************************)
EXTENDS Integers, Sequences, FiniteSets, TLC

\* ------------------------------------------------------------------------
\* Program constants
\* ------------------------------------------------------------------------

\* _ping_with_retry(self, max_retries: int = 3)
max_retries == 3

\* time.sleep(0.5 * (attempt + 1)), in milliseconds
BackoffMs == 500

\* rows = min(self.config.max_rows, 100)
DefaultRows == 100

\* ------------------------------------------------------------------------
\* Bounds of the model
\* ------------------------------------------------------------------------

\* longest flat facet sequence [v0, c0, v1, c1, ...] of a raw reply
MaxFacetLen == 4

\* The logical tasks of the calling layer that use the one client.
Tasks == {"t1", "t2"}

\* ------------------------------------------------------------------------
\* Exceptions
\* ------------------------------------------------------------------------

\* What the transport (pysolr over requests) raises: pysolr.SolrError for an
\* engine-reported error, a timeout or a refused connection, and other
\* Exception subclasses (a malformed body, a requests error).  Each kind
\* stands for an exception object; its message is ExcMsg(kind).
TransportExceptions == {"SolrError", "Timeout", "ValueError"}

ExcMsg(kind) ==
    CASE kind = "SolrError"       -> "engine reported an error"
      [] kind = "Timeout"         -> "read timed out"
      [] kind = "ValueError"      -> "malformed response body"
      [] kind = "AttributeError"  -> "'NoneType' object has no attribute 'search'"
      [] kind = "TypeError"       -> "sequence item: expected str instance"
      [] kind = "ValidationError" -> "validation error for FacetValue"
      [] OTHER                    -> "error"

\* isinstance(e, pysolr.SolrError)
IsSolrError(kind) == kind = "SolrError"

NoOutcome == [kind |-> "none", exc |-> "", msg |-> <<>>, val |-> <<>>]
Returned(v) == [kind |-> "return", exc |-> "", msg |-> <<>>, val |-> v]
Raised(e, m) == [kind |-> "raise", exc |-> e, msg |-> m, val |-> <<>>]

\* ------------------------------------------------------------------------
\* Python values
\* ------------------------------------------------------------------------

\* Optional[...]: None, or a value.
None == [isNone |-> TRUE]
Some(x) == [isNone |-> FALSE, v |-> x]

\* bool(x) of an Optional list: None and [] are falsy.
Truthy(o) == IF o.isNone THEN FALSE ELSE o.v # <<>>

\* bool(x) of an Optional str: None and "" are falsy.
TruthyStr(o) == IF o.isNone THEN FALSE ELSE o.v # ""

Min(a, b) == IF a <= b THEN a ELSE b

\* A list element that is not a str (an int inside a JSON array, say).
NonStr == "<non-str>"

\* A Python str built by joining is modelled as the sequence of its tokens:
\* ",".join(["title", "body"]) is <<"title", ",", "body">>.
RECURSIVE JoinTokens(_)
JoinTokens(l) ==
    IF l = <<>> THEN <<>>
    ELSE IF Len(l) = 1 THEN <<l[1]>>
    ELSE <<l[1], ",">> \o JoinTokens(Tail(l))

\* ",".join(l): TypeError when an element is not a str.
Join(l) ==
    IF \E i \in 1..Len(l) : l[i] = NonStr
    THEN [ok |-> FALSE, exc |-> "TypeError"]
    ELSE [ok |-> TRUE, s |-> JoinTokens(l)]

\* dict assignment d[k] = v
Put(d, k, v) == (k :> v) @@ d

\* ------------------------------------------------------------------------
\* Query builder: the parameter part of search()
\* ------------------------------------------------------------------------

\* (mutant) "if not rows" in place of "if rows is None": 0 is defaulted too
EffectiveRowsIfFalsy(cfg, req) ==
    IF req.rows.isNone \/ req.rows.v = 0
    THEN Min(cfg.max_rows, DefaultRows) ELSE req.rows.v

\* if rows is None: rows = min(self.config.max_rows, 100)
EffectiveRows(cfg, req) ==
    IF req.rows.isNone THEN Min(cfg.max_rows, DefaultRows) ELSE req.rows.v

\* search_params = {"q": query, "start": start, "rows": rows, **kwargs}
\* (no caller in the repository passes extra keyword arguments)
BaseParams(cfg, req) ==
    ("q" :> req.query) @@ ("start" :> req.start) @@ ("rows" :> EffectiveRows(cfg, req))

WithDefaultField(p, req) ==
    IF TruthyStr(req.default_field) THEN Put(p, "df", req.default_field.v) ELSE p

\* (mutant) "if fields is not None" in place of "if fields"
WithFieldListIfNotNone(p, req) ==
    IF ~req.fields.isNone THEN Put(p, "fl", JoinTokens(req.fields.v)) ELSE p

\* if fields: search_params["fl"] = ",".join(fields)
WithFieldList(p, req) ==
    IF Truthy(req.fields) THEN Put(p, "fl", Join(req.fields.v).s) ELSE p

WithSort(p, req) ==
    IF TruthyStr(req.sort) THEN Put(p, "sort", req.sort.v) ELSE p

\* (mutant) the filters joined into one value, as the field list is
WithFiltersJoined(p, req) ==
    IF Truthy(req.filters) THEN Put(p, "fq", JoinTokens(req.filters.v)) ELSE p

\* if filters: search_params["fq"] = filters
WithFilters(p, req) ==
    IF Truthy(req.filters) THEN Put(p, "fq", req.filters.v) ELSE p

WithFacets(p, cfg, req) ==
    IF Truthy(req.facet_fields)
    THEN Put(Put(Put(Put(p, "facet", "true"),
                     "facet.field", req.facet_fields.v),
                 "facet.limit", cfg.facet_limit),
             "facet.mincount", 1)
    ELSE p

HighlightMarkers(p) ==
    Put(Put(p, "hl.simple.pre", "<mark>"), "hl.simple.post", "</mark>")

\* (mutant) the first branch without "and self.config.highlight_enabled"
WithHighlightingUnchecked(p, cfg, req) ==
    IF Truthy(req.highlight_fields)
    THEN HighlightMarkers(
             Put(Put(p, "hl", "true"), "hl.fl", JoinTokens(req.highlight_fields.v)))
    ELSE IF cfg.highlight_enabled
    THEN HighlightMarkers(Put(Put(p, "hl", "true"), "hl.fl", <<"*">>))
    ELSE p

\* The if / elif of lines 250-260.
WithHighlighting(p, cfg, req) ==
    IF Truthy(req.highlight_fields) /\ cfg.highlight_enabled
    THEN HighlightMarkers(
             Put(Put(p, "hl", "true"), "hl.fl", Join(req.highlight_fields.v).s))
    ELSE IF cfg.highlight_enabled /\ ~Truthy(req.highlight_fields)
    THEN HighlightMarkers(Put(Put(p, "hl", "true"), "hl.fl", <<"*">>))
    ELSE p

WithSuggest(p, req) ==
    IF req.suggest
    THEN Put(Put(Put(p, "spellcheck", "true"),
                 "spellcheck.build", "true"),
             "spellcheck.collate", "true")
    ELSE p

\* The joins that raise before any parameter set exists.
BuildRaises(cfg, req) ==
    \/ Truthy(req.fields) /\ ~Join(req.fields.v).ok
    \/ /\ Truthy(req.highlight_fields)
       /\ cfg.highlight_enabled
       /\ ~Join(req.highlight_fields.v).ok

\* Lines 219-266 of search(): the wire parameters, or the exception raised
\* while building them.
SearchParams(cfg, req) ==
    IF BuildRaises(cfg, req)
    THEN [ok |-> FALSE, exc |-> "TypeError"]
    ELSE [ok |-> TRUE,
          params |->
             WithSuggest(
               WithHighlighting(
                 WithFacets(
                   WithFilters(
                     WithSort(
                       WithFieldList(
                         WithDefaultField(BaseParams(cfg, req), req),
                         req),
                       req),
                     req),
                   cfg, req),
                 cfg, req),
               req)]

\* ------------------------------------------------------------------------
\* Raw replies (pysolr.Results)
\* ------------------------------------------------------------------------

\* An element of a flat facet sequence: a label (a str) or a count (an int).
\* s is str(element), n its value when it is an int.
FacetLabel(l) == [kind |-> "str", s |-> l, n |-> 0]
FacetCount(c, cs) == [kind |-> "int", s |-> cs, n |-> c]

FacetElems == {FacetLabel("books"), FacetCount(5, "5"), FacetCount(3, "3")}

\* str(x)
Str(e) == e.s

\* The facet field names of a reply, in the order of the reply's mapping.
FacetNames == <<"category", "author">>

\* dict.get(key, default) on a mapping modelled as a function
Get(d, k, default) == IF k \in DOMAIN d THEN d[k] ELSE default

\* ------------------------------------------------------------------------
\* Reply normalizer: _process_search_response
\* ------------------------------------------------------------------------

\* FacetValue(value=..., count=...): the count field is declared int, and the
\* model's validation rejects a count that is not one.
FacetValue(value, count) ==
    IF count.kind = "int"
    THEN [ok |-> TRUE, v |-> [value |-> Str(value), count |-> count.n]]
    ELSE [ok |-> FALSE, exc |-> "ValidationError"]

\* for i in range(0, len(field_values), 2): if i + 1 < len(field_values): ...
\* (i is the 0-based index of the source)
RECURSIVE DecodeFrom(_, _)
DecodeFrom(field_values, i) ==
    IF i >= Len(field_values) THEN [ok |-> TRUE, v |-> <<>>]
    ELSE IF i + 1 < Len(field_values)
    THEN LET fv == FacetValue(field_values[i + 1], field_values[i + 2])
             rest == DecodeFrom(field_values, i + 2)
         IN  IF ~fv.ok THEN fv
             ELSE IF ~rest.ok THEN rest
             ELSE [ok |-> TRUE, v |-> <<fv.v>> \o rest.v]
    ELSE DecodeFrom(field_values, i + 2)

RECURSIVE Reverse(_)
Reverse(l) == IF l = <<>> THEN <<>> ELSE Append(Reverse(Tail(l)), l[1])

\* (mutant) the pairs are collected in front of the list, not at its end
DecodeFacetValuesReversed(field_values) ==
    LET d == DecodeFrom(field_values, 0)
    IN  IF d.ok THEN [ok |-> TRUE, v |-> Reverse(d.v)] ELSE d

\* The inner loop of the facet section: the FacetValue list of one field.
DecodeFacetValues(field_values) == DecodeFrom(field_values, 0)

\* (mutant) the field is appended without the check of its value list
AppendFacetFieldAlways(facets, field_name, facet_values) ==
    Append(facets, [name |-> field_name, values |-> facet_values])

\* if facet_values: facets.append(FacetField(name=..., values=...))
AppendFacetField(facets, field_name, facet_values) ==
    IF facet_values # <<>>
    THEN Append(facets, [name |-> field_name, values |-> facet_values])
    ELSE facets

\* The outer loop over facet_fields.items(); ff is the sequence of
\* <<field_name, field_values>> in the mapping's order.
RECURSIVE DecodeFacetFields(_, _)
DecodeFacetFields(ff, facets) ==
    IF ff = <<>> THEN [ok |-> TRUE, v |-> facets]
    ELSE LET d == DecodeFacetValues(ff[1][2])
         IN  IF ~d.ok THEN d
             ELSE DecodeFacetFields(Tail(ff),
                                    AppendFacetField(facets, ff[1][1], d.v))

\* Lines 388-404.  response.facets is None (no facet section) or a mapping
\* whose "facet_fields" entry maps field names to flat sequences.
ProcessFacets(response) ==
    IF response.facets.isNone \/ response.facets.v = <<>>
    THEN [ok |-> TRUE, v |-> <<>>]
    ELSE DecodeFacetFields(response.facets.v, <<>>)

\* facets if facets else None
OrNone(x) == IF x # <<>> THEN Some(x) ELSE None

\* A document is the sequence of its <<key, value>> pairs in the reply's order.
RECURSIVE DocGet(_, _, _)
DocGet(doc, k, default) ==
    IF doc = <<>> THEN default
    ELSE IF doc[1][1] = k THEN doc[1][2]
    ELSE DocGet(Tail(doc), k, default)

DocHas(doc, k) == \E i \in 1..Len(doc) : doc[i][1] = k

\* str(doc): the text of the pairs in order
RECURSIVE StrDoc(_)
StrDoc(doc) ==
    IF doc = <<>> THEN ""
    ELSE doc[1][1] \o "=" \o doc[1][2] \o ";" \o StrDoc(Tail(doc))

\* str(hash(str(doc))): the hash of a str is salted per process (seed)
HashId(seed, doc) == "hash" \o seed \o "(" \o StrDoc(doc) \o ")"

\* doc.get("id", str(hash(str(doc))))
DocId(seed, doc) == DocGet(doc, "id", HashId(seed, doc))

\* doc.get("score")
DocScore(doc) == IF DocHas(doc, "score") THEN Some(DocGet(doc, "score", "")) ELSE None

\* (mutant) only "id" is removed from the field map
DocFieldsKeepScore(doc) ==
    SelectSeq(doc, LAMBDA kv : kv[1] # "id")

\* {k: v for k, v in doc.items() if k not in ["id", "score"]}
DocFields(doc) ==
    SelectSeq(doc, LAMBDA kv : kv[1] \notin {"id", "score"})

\* (mutant) the entry is attached without the "if doc_highlighting" check
DocHighlightingUnchecked(response, doc_id) ==
    IF response.highlighting.isNone \/ response.highlighting.v = <<>>
    THEN None
    ELSE Some(Get(response.highlighting.v, doc_id, <<>>))

\* Lines 375-380: the highlight entry of one document.
DocHighlighting(response, doc_id) ==
    IF response.highlighting.isNone \/ response.highlighting.v = <<>>
    THEN None
    ELSE LET doc_highlighting == Get(response.highlighting.v, doc_id, <<>>)
         IN  IF doc_highlighting # <<>> THEN Some(doc_highlighting) ELSE None

SearchResultOf(response, seed, doc) ==
    [id |-> DocId(seed, doc),
     score |-> DocScore(doc),
     fields |-> DocFields(doc),
     highlighting |-> DocHighlighting(response, DocId(seed, doc))]

\* Lines 365-386: one SearchResult per document, in order.
ProcessDocs(response, seed) ==
    [i \in 1..Len(response.docs) |-> SearchResultOf(response, seed, response.docs[i])]

\* (mutant) the test without its "suggestion" in suggestion_data part, the
\* list read with a default of []
HasSuggestionAnyDict(suggestion_data) == suggestion_data.isDict

\* isinstance(suggestion_data, dict) and "suggestion" in suggestion_data
HasSuggestion(suggestion_data) ==
    suggestion_data.isDict /\ suggestion_data.hasSuggestion

\* Lines 406-415.  The spellcheck section is None, or its "suggestions" entry:
\* a mapping (the sequence of <<word, suggestion_data>>) or, malformed, a
\* list, on which .items() raises AttributeError.
RECURSIVE CollectSuggestions(_)
CollectSuggestions(entries) ==
    IF entries = <<>> THEN <<>>
    ELSE IF HasSuggestion(entries[1][2])
    THEN <<<<entries[1][1], entries[1][2].suggestion>>>> \o CollectSuggestions(Tail(entries))
    ELSE CollectSuggestions(Tail(entries))

ProcessSpellcheck(response) ==
    IF response.spellcheck.isNone THEN [ok |-> TRUE, v |-> <<>>]
    ELSE IF response.spellcheck.v.shape # "map"
    THEN [ok |-> FALSE, exc |-> "AttributeError"]
    ELSE [ok |-> TRUE, v |-> CollectSuggestions(response.spellcheck.v.entries)]

\* getattr(obj, name, default) of an attribute that may be missing
GetAttr(o, default) == IF o.isNone THEN default ELSE o.v

\* (mutant) rows taken from the engine's hit count
CountsRowsFromHits(response, results) ==
    [total_found |-> response.hits,
     start |-> GetAttr(response.start, 0),
     rows |-> response.hits]

\* Lines 419-421: total_found=response.hits,
\* start=getattr(response, "start", 0), rows=len(results)
Counts(response, results) ==
    [total_found |-> response.hits,
     start |-> GetAttr(response.start, 0),
     rows |-> Len(results)]

\* _process_search_response: the SearchResponse, or the exception raised on
\* the way.
ProcessSearchResponse(response, seed) ==
    LET results == ProcessDocs(response, seed)
        facets == ProcessFacets(response)
        suggestions == ProcessSpellcheck(response)
    IN  IF response.docs # <<>> /\ ~response.docsAreDicts
        THEN [ok |-> FALSE, exc |-> "AttributeError"]
        ELSE IF ~facets.ok THEN [ok |-> FALSE, exc |-> facets.exc]
        ELSE IF ~suggestions.ok THEN [ok |-> FALSE, exc |-> suggestions.exc]
        ELSE [ok |-> TRUE,
              v |-> [results |-> results,
                     total_found |-> Counts(response, results).total_found,
                     start |-> Counts(response, results).start,
                     rows |-> Counts(response, results).rows,
                     query_time |-> response.qtime,
                     facets |-> OrNone(facets.v),
                     suggestions |-> OrNone(suggestions.v)]]

\* ------------------------------------------------------------------------
\* The reply parts of suggest_query, get_schema_fields, get_collection_stats
\* ------------------------------------------------------------------------

\* (mutant) the candidate list without its [:count]
SliceForgotten(l, count) == l

\* l[:count] of Python: a negative count drops from the end.
Slice(l, count) ==
    IF count >= 0 THEN SubSeq(l, 1, Min(count, Len(l)))
    ELSE SubSeq(l, 1, Len(l) + count)

RECURSIVE CollectSliced(_, _)
CollectSliced(entries, count) ==
    IF entries = <<>> THEN <<>>
    ELSE IF HasSuggestion(entries[1][2])
    THEN <<<<entries[1][1], Slice(entries[1][2].suggestion, count)>>>>
             \o CollectSliced(Tail(entries), count)
    ELSE CollectSliced(Tail(entries), count)

\* Lines 301-313 of suggest_query.
SuggestionsOf(response, count) ==
    IF response.spellcheck.isNone THEN [ok |-> TRUE, v |-> <<>>]
    ELSE IF response.spellcheck.v.shape # "map"
    THEN [ok |-> FALSE, exc |-> "AttributeError"]
    ELSE [ok |-> TRUE, v |-> CollectSliced(response.spellcheck.v.entries, count)]

\* list(response.docs[0].keys())
DocKeys(doc) == [i \in 1..Len(doc) |-> doc[i][1]]

\* Lines 330-332 of get_schema_fields.
SchemaFieldsOf(response) ==
    IF response.docs = <<>> THEN [ok |-> TRUE, v |-> <<>>]
    ELSE IF ~response.docsAreDicts THEN [ok |-> FALSE, exc |-> "AttributeError"]
    ELSE [ok |-> TRUE, v |-> DocKeys(response.docs[1])]

\* Lines 346-350 of get_collection_stats.
StatsOf(cfg, response) ==
    [total_documents |-> response.hits,
     collection_name |-> cfg.collection,
     solr_url |-> cfg.base_url]

\* ------------------------------------------------------------------------
\* How each operation ends
\* ------------------------------------------------------------------------

\* (mutant) search() with the first except clause only
WrapSolrErrorOnly(exc) ==
    IF IsSolrError(exc)
    THEN Raised("SOLRQueryError", <<"SOLR query failed: ", ExcMsg(exc)>>)
    ELSE Raised(exc, <<ExcMsg(exc)>>)

\* (mutant) a search() that tells a failure of the network from a failure
\* of the query
WrapQueryErrorClassifies(exc) ==
    IF IsSolrError(exc)
    THEN Raised("SOLRQueryError", <<"SOLR query failed: ", ExcMsg(exc)>>)
    ELSE IF exc = "Timeout"
    THEN Raised("SOLRConnectionError", <<"Failed to connect to SOLR: ", ExcMsg(exc)>>)
    ELSE Raised("SOLRQueryError", <<"Unexpected error during search: ", ExcMsg(exc)>>)

\* The two except clauses of search(), lines 275-280.
WrapQueryError(exc) ==
    IF IsSolrError(exc)
    THEN Raised("SOLRQueryError", <<"SOLR query failed: ", ExcMsg(exc)>>)
    ELSE Raised("SOLRQueryError", <<"Unexpected error during search: ", ExcMsg(exc)>>)

\* return self._process_search_response(response), inside the try
SearchReturns(response, seed) ==
    LET r == ProcessSearchResponse(response, seed)
    IN  IF r.ok THEN Returned(r.v) ELSE WrapQueryError(r.exc)

\* (mutant) ping() without its except clause
PingRaises(exc) == Raised(exc, <<ExcMsg(exc)>>)

\* ping(): the except clause, then return False
PingOnException(exc) == Returned(FALSE)

\* (mutant) a best-effort operation that lets the exception through
BestEffortRaises(op) == Raised("Exception", <<ExcMsg("Exception")>>)

\* The except clauses of the best-effort operations, lines 315-317, 333-335
\* and 351-353: the safe default.
BestEffortDefault(op) ==
    CASE op = "suggest_query"        -> Returned(<<>>)
      [] op = "get_schema_fields"    -> Returned(<<>>)
      [] op = "get_collection_stats" -> Returned(<<>>)

SuggestReturns(response, count) ==
    LET r == SuggestionsOf(response, count)
    IN  IF r.ok THEN Returned(r.v) ELSE BestEffortDefault("suggest_query")

SchemaFieldsReturns(response) ==
    LET r == SchemaFieldsOf(response)
    IN  IF r.ok THEN Returned(r.v) ELSE BestEffortDefault("get_schema_fields")

StatsReturns(cfg, response) == Returned(StatsOf(cfg, response))

\* ------------------------------------------------------------------------
\* Inputs of the lifecycle specification
\* ------------------------------------------------------------------------

Request(query, fields, rows, filters, facet_fields, highlight_fields, suggest) ==
    [query |-> query, default_field |-> None, fields |-> fields, start |-> 0,
     rows |-> rows, sort |-> None, filters |-> filters,
     facet_fields |-> facet_fields, highlight_fields |-> highlight_fields,
     suggest |-> suggest]

\* The search requests the tasks make.
Requests ==
    {Request("solr", None, None, None, None, None, FALSE),
     Request("solr", Some(<<"title", NonStr>>), Some(10), None, None, None, FALSE),
     Request("*:*", None, Some(0), None, Some(<<"category">>), Some(<<"title">>), TRUE)}

RawReply(docs, docsAreDicts, hits, facets, highlighting, spellcheck) ==
    [docs |-> docs, docsAreDicts |-> docsAreDicts, hits |-> hits, start |-> Some(0),
     qtime |-> Some(4), facets |-> facets, highlighting |-> highlighting,
     spellcheck |-> spellcheck]

\* The reply r with another start attribute: Some(offset), or None for a
\* reply object that has no such attribute.
WithStart(r, start) == [r EXCEPT !.start = start]

SuggestionData(l) == [isDict |-> TRUE, hasSuggestion |-> TRUE, suggestion |-> l]

\* An entry of the suggestions mapping that is a mapping without a
\* "suggestion" key, and one that is not a mapping (a bare string).
NoSuggestionKey == [isDict |-> TRUE, hasSuggestion |-> FALSE, suggestion |-> <<>>]
NotADict == [isDict |-> FALSE, hasSuggestion |-> FALSE, suggestion |-> <<>>]

Doc1 == <<<<"id", "d1">>, <<"score", "1.5">>, <<"title", "Solr">>>>
Doc2 == <<<<"title", "Lucene">>>>

\* The suggestions mapping of a reply: a term without a suggestion list, a
\* term with three candidates, and an entry that is not a mapping.
Spellcheck3 ==
    [shape |-> "map",
     entries |-> <<<<"serch", NoSuggestionKey>>,
                   <<"documnt", SuggestionData(<<"document", "documents", "docent">>)>>,
                   <<"collation", NotADict>>>>]

\* The raw replies the engine gives: an empty one, one with suggestions and
\* no document, a full well-formed one, one whose facet count is not an int,
\* one whose spellcheck suggestions are a list, and one whose documents are
\* not mappings.
Replies ==
    {RawReply(<<>>, TRUE, 7, None, None, None),
     RawReply(<<>>, TRUE, 0, None, None, Some(Spellcheck3)),
     RawReply(<<Doc1, Doc2>>, TRUE, 2,
              Some(<<<<"category", <<FacetLabel("books"), FacetCount(5, "5")>>>>>>),
              Some("d1" :> ("title" :> <<"<mark>Solr</mark>">>)),
              Some(Spellcheck3)),
     RawReply(<<Doc1>>, TRUE, 1,
              Some(<<<<"category", <<FacetLabel("books"), FacetLabel("articles")>>>>>>),
              None, None),
     RawReply(<<>>, TRUE, 0, None, None, Some([shape |-> "list", entries |-> <<>>])),
     RawReply(<<Doc1>>, FALSE, 1, None, None, None)}

\* The count arguments of suggest_query
SuggestCounts == {2, 5}

Doc3 == <<<<"id", "d2">>, <<"title", "Lucene in Action">>>>

\* The highlight entries of two documents: field name to fragment list.
Fragments1 == "title" :> <<"<mark>Solr</mark>">>
Fragments2 == "title" :> <<"<mark>Lucene</mark> in Action">>

\* More raw replies for the normalizer: highlight sections with an entry
\* for each document that has an id, with an empty entry, and empty as a
\* whole; suggestions mappings where no term has a list, and where a list
\* is empty; a page that starts at offset 20, with and without documents,
\* and a reply object without start attribute.
MoreReplies ==
    {WithStart(RawReply(<<>>, TRUE, 42, None, None, None), Some(20)),
     WithStart(RawReply(<<Doc3, Doc2, Doc1>>, TRUE, 42, None, None, None), Some(20)),
     WithStart(RawReply(<<Doc1>>, TRUE, 1, None, None, None), None),
     RawReply(<<Doc1, Doc3, Doc2>>, TRUE, 3, None,
              Some(("d1" :> Fragments1) @@ ("d2" :> Fragments2)), None),
     RawReply(<<Doc1, Doc3>>, TRUE, 2, None,
              Some(("d1" :> <<>>) @@ ("d2" :> Fragments2)), None),
     RawReply(<<Doc3, Doc1>>, TRUE, 2, None,
              Some("d1" :> Fragments1), None),
     RawReply(<<Doc1, Doc3>>, TRUE, 2, None, Some(<<>>), None),
     RawReply(<<Doc1>>, TRUE, 1, None, None,
              Some([shape |-> "map",
                    entries |-> <<<<"serch", NoSuggestionKey>>,
                                  <<"collation", NotADict>>>>])),
     RawReply(<<Doc1>>, TRUE, 1, None, None,
              Some([shape |-> "map",
                    entries |-> <<<<"solar", SuggestionData(<<"solr">>)>>,
                                  <<"serch", NoSuggestionKey>>,
                                  <<"lucen", SuggestionData(<<>>)>>>>]))}

\* ------------------------------------------------------------------------
\* State
\* ------------------------------------------------------------------------

VARIABLES
    config,     \* self.config
    hashSeed,   \* the process's str hash salt (PYTHONHASHSEED)
    solr,       \* self._solr: "None" or "Solr" (the pysolr handle)
    pc,         \* position of SOLRClient(...): "new", "probing", "ready", "failed"
    attempt,    \* loop variable of _ping_with_retry
    probes,     \* number of self._solr.ping() calls made by _ping_with_retry
    waits,      \* the time.sleep() arguments of _ping_with_retry, in ms, in order
    initError,  \* the exception SOLRClient(...) raised, or NoOutcome
    closed,     \* close() has been called on the client
    tpc,        \* per task: "idle", "checked" (ping saw the handle) or "inflight"
    call,       \* per task: the operation of its current or last call, and the
                \* tool whose handler made it ("" for a direct call)
    sent,       \* per task: requests the current or last call issued to the engine
    got,        \* per task: what the transport gave that call (reply or exception)
    out,        \* per task: outcome of its last finished call (of the tool call
                \* when a handler made it)
    fnIn,       \* the argument of the function under test (function specifications)
    fnOut,      \* its result, or NoOutcome before it is applied
    srv         \* run_server: its position, the shutdown event, the result of
                \* the startup ping and how it ended

initVars == <<pc, attempt, probes, waits, initError>>
taskVars == <<tpc, call, sent, got, out>>
fnVars == <<fnIn, fnOut>>
srvVars == <<srv>>
clientVars == <<config, hashSeed, solr, pc, attempt, probes, waits, initError,
                closed, tpc, call, sent, got, out>>
vars == <<config, hashSeed, solr, pc, attempt, probes, waits, initError, closed,
          tpc, call, sent, got, out, fnIn, fnOut, srv>>

Configs ==
    [max_rows : {50, 1000}, highlight_enabled : BOOLEAN, facet_limit : {100},
     collection : {"docs"}, base_url : {"http://localhost:8983/solr"}]

\* The defaults of SOLRConfig.
DefaultConfig ==
    [max_rows |-> 1000, highlight_enabled |-> TRUE, facet_limit |-> 100,
     collection |-> "docs", base_url |-> "http://localhost:8983/solr"]

HashSeeds == {"0", "1"}

\* run_server is not running: the client is used on its own.
NoServer == [pc |-> "none", shutdown |-> FALSE, ping |-> NoOutcome, end |-> NoOutcome]

NoCall == [op |-> "none", afterClose |-> FALSE, arg |-> <<>>, tool |-> "", args |-> <<>>]

\* What the transport gave a call: nothing (no request was made), nothing
\* yet, a raw reply, or an exception.
Nothing == [kind |-> "none", exc |-> "", reply |-> <<>>]
Pending == [kind |-> "pending", exc |-> "", reply |-> <<>>]
GotReply(r) == [kind |-> "reply", exc |-> "", reply |-> r]
GotException(e) == [kind |-> "exception", exc |-> e, reply |-> <<>>]
Call(op, arg) ==
    [op |-> op, afterClose |-> closed, arg |-> arg, tool |-> "", args |-> <<>>]

\* A client operation called by the handler of the tool, for the arguments
\* args of the tool call; op is "none" when the handler calls none.
ToolCall(tool, args, op, arg) ==
    [op |-> op, afterClose |-> closed, arg |-> arg, tool |-> tool, args |-> args]

\* The lifecycle runs under the default configuration, with highlighting
\* enabled or disabled.
LifecycleConfigs == {c \in Configs : c.max_rows = DefaultConfig.max_rows}

Init ==
    /\ config \in LifecycleConfigs
    /\ hashSeed \in HashSeeds
    /\ solr = "None"
    /\ pc = "new"
    /\ attempt = 0
    /\ probes = 0
    /\ waits = <<>>
    /\ initError = NoOutcome
    /\ closed = FALSE
    /\ tpc = [t \in Tasks |-> "idle"]
    /\ call = [t \in Tasks |-> NoCall]
    /\ sent = [t \in Tasks |-> 0]
    /\ got = [t \in Tasks |-> Nothing]
    /\ out = [t \in Tasks |-> NoOutcome]
    /\ fnIn = <<>>
    /\ fnOut = NoOutcome
    /\ srv = NoServer

\* ------------------------------------------------------------------------
\* Construction: __init__, _initialize_connection, _ping_with_retry
\* ------------------------------------------------------------------------

\* __init__ up to the call of _ping_with_retry: the handle is created and
\* the loop starts with attempt = 0.
InitializeConnection ==
    /\ pc = "new"
    /\ solr' = "Solr"
    /\ pc' = "probing"
    /\ attempt' = 0
    /\ UNCHANGED <<fnVars, srvVars, config, hashSeed, probes, waits, initError, closed, taskVars>>

\* (mutant) a loop that sleeps after every probe, the successful one included
ProbeSucceedsThenWaits ==
    /\ pc = "probing"
    /\ probes' = probes + 1
    /\ waits' = Append(waits, BackoffMs * (attempt + 1))
    /\ pc' = "ready"
    /\ UNCHANGED <<fnVars, srvVars, config, hashSeed, solr, attempt, initError, closed, taskVars>>

\* One iteration of the loop whose probe returns: _ping_with_retry returns
\* and _initialize_connection ends normally.
ProbeSucceeds ==
    /\ pc = "probing"
    /\ probes' = probes + 1
    /\ pc' = "ready"
    /\ UNCHANGED <<fnVars, srvVars, config, hashSeed, solr, attempt, waits, initError, closed, taskVars>>

\* The sleep of one failed iteration.
Backoff(a) == BackoffMs * (a + 1)

\* (mutant) the loop gives up one attempt late
LastAttemptOffByOne(a) == a = max_retries

\* attempt == max_retries - 1
LastAttempt(a) == a = max_retries - 1

\* One iteration of the loop whose probe raises e: the last attempt re-raises,
\* which _initialize_connection turns into SOLRConnectionError; an earlier
\* one sleeps and goes on to the next attempt.
ProbeFails(e) ==
    /\ pc = "probing"
    /\ probes' = probes + 1
    /\ IF LastAttempt(attempt)
       THEN /\ pc' = "failed"
            /\ initError' = Raised("SOLRConnectionError",
                                   <<"Failed to connect to SOLR: ", ExcMsg(e)>>)
            /\ UNCHANGED <<attempt, waits>>
       ELSE /\ waits' = Append(waits, Backoff(attempt))
            /\ attempt' = attempt + 1
            /\ UNCHANGED <<pc, initError>>
    /\ UNCHANGED <<fnVars, srvVars, config, hashSeed, solr, closed, taskVars>>

Construct ==
    \/ InitializeConnection
    \/ ProbeSucceeds
    \/ \E e \in TransportExceptions : ProbeFails(e)

\* ------------------------------------------------------------------------
\* Operations of a constructed client
\* ------------------------------------------------------------------------

\* A task may call the client once construction has returned it.
CanCall(t) == pc = "ready" /\ tpc[t] = "idle"

\* The call ends without an exchange with the engine.
EndsAtOnce(t, c, o) ==
    /\ call' = [call EXCEPT ![t] = c]
    /\ sent' = [sent EXCEPT ![t] = 0]
    /\ got' = [got EXCEPT ![t] = Nothing]
    /\ out' = [out EXCEPT ![t] = o]
    /\ UNCHANGED tpc

\* The call hands one request to the transport and blocks on the reply.
SendsRequest(t, c) ==
    /\ call' = [call EXCEPT ![t] = c]
    /\ sent' = [sent EXCEPT ![t] = 1]
    /\ got' = [got EXCEPT ![t] = Pending]
    /\ out' = [out EXCEPT ![t] = NoOutcome]
    /\ tpc' = [tpc EXCEPT ![t] = "inflight"]

\* The blocked call, given g by the transport, ends with outcome o.
Ends(t, g, o) ==
    /\ tpc' = [tpc EXCEPT ![t] = "idle"]
    /\ got' = [got EXCEPT ![t] = g]
    /\ out' = [out EXCEPT ![t] = o]
    /\ UNCHANGED <<call, sent>>

\* ping(), line 175: if self._solr: ... else return False
PingCall(t) ==
    /\ CanCall(t)
    /\ IF solr = "Solr"
       THEN /\ call' = [call EXCEPT ![t] = Call("ping", <<>>)]
            /\ sent' = [sent EXCEPT ![t] = 0]
            /\ got' = [got EXCEPT ![t] = Nothing]
            /\ out' = [out EXCEPT ![t] = NoOutcome]
            /\ tpc' = [tpc EXCEPT ![t] = "checked"]
       ELSE EndsAtOnce(t, Call("ping", <<>>), Returned(FALSE))
    /\ UNCHANGED <<fnVars, srvVars, config, hashSeed, solr, initVars, closed>>

\* ping(), line 176: self._solr is read again for self._solr.ping(); when
\* another task has released it meanwhile, the AttributeError is caught.
PingSend(t) ==
    /\ pc = "ready"
    /\ tpc[t] = "checked"
    /\ IF solr = "Solr"
       THEN /\ sent' = [sent EXCEPT ![t] = 1]
            /\ got' = [got EXCEPT ![t] = Pending]
            /\ tpc' = [tpc EXCEPT ![t] = "inflight"]
            /\ UNCHANGED <<call, out>>
       ELSE /\ tpc' = [tpc EXCEPT ![t] = "idle"]
            /\ out' = [out EXCEPT ![t] = PingOnException("AttributeError")]
            /\ UNCHANGED <<call, sent, got>>
    /\ UNCHANGED <<fnVars, srvVars, config, hashSeed, solr, initVars, closed>>

\* (mutant) a search() that reconnects when the handle is released
SearchCallReconnects(t, req) ==
    /\ CanCall(t)
    /\ LET p == SearchParams(config, req)
       IN  IF ~p.ok
           THEN /\ EndsAtOnce(t, Call("search", req), WrapQueryError(p.exc))
                /\ UNCHANGED solr
           ELSE /\ SendsRequest(t, Call("search", req))
                /\ solr' = "Solr"
    /\ UNCHANGED <<fnVars, srvVars, config, hashSeed, initVars, closed>>

\* search(), lines 218-271: the parameters are built, then self._solr.search
\* is looked up (AttributeError on None) and called.
SearchCall(t, req) ==
    /\ CanCall(t)
    /\ LET p == SearchParams(config, req)
       IN  IF ~p.ok
           THEN EndsAtOnce(t, Call("search", req), WrapQueryError(p.exc))
           ELSE IF solr = "None"
           THEN EndsAtOnce(t, Call("search", req), WrapQueryError("AttributeError"))
           ELSE SendsRequest(t, Call("search", req))
    /\ UNCHANGED <<fnVars, srvVars, config, hashSeed, solr, initVars, closed>>

\* suggest_query, get_schema_fields, get_collection_stats up to their
\* self._solr.search(...) call.
BestEffortCall(t, op, arg) ==
    /\ CanCall(t)
    /\ IF solr = "None"
       THEN EndsAtOnce(t, Call(op, arg), BestEffortDefault(op))
       ELSE SendsRequest(t, Call(op, arg))
    /\ UNCHANGED <<fnVars, srvVars, config, hashSeed, solr, initVars, closed>>

\* The query the tasks ask suggestions for.
SuggestQuery == "documnt"

\* ------------------------------------------------------------------------
\* The tool handlers of the server (server.py)
\* ------------------------------------------------------------------------

\* raise McpError(ErrorData(code=..., message=...)); str(e) is the message.
McpError(code, m) == [kind |-> "raise", exc |-> "McpError", msg |-> m, val |-> <<code>>]

SOLRClientErrors == {"SOLRClientError", "SOLRConnectionError", "SOLRQueryError"}

\* The two except clauses of handle_call_tool, lines 245-254: what the tool
\* call ends with when its handler ended with o.
HandleCallTool(o) ==
    IF o.kind # "raise" THEN o
    ELSE IF o.exc \in SOLRClientErrors
    THEN McpError("INTERNAL_ERROR", <<"SOLR error: ">> \o o.msg)
    ELSE McpError("INTERNAL_ERROR", <<"Internal error: ">> \o o.msg)

\* The tools whose handlers call search().
SearchTools == {"search", "advanced_search", "faceted_search", "search_with_highlighting"}

\* The arguments of a tool call: arguments.get(key) is None for a key that
\* is not given.
ToolArgs(query, rows, facet_fields) ==
    [query |-> query, rows |-> rows, facet_fields |-> facet_fields, count |-> None]

\* The tool calls the tasks make: no query, an empty query, and a query with
\* and without a row count and facet fields.
ToolArguments ==
    {ToolArgs(None, None, None),
     ToolArgs(Some(""), Some(100), Some(<<"category">>)),
     ToolArgs(Some("solr"), None, None),
     ToolArgs(Some("solr"), Some(100), None),
     ToolArgs(Some("solr"), Some(100), Some(<<"category">>))}

\* not x, for an Optional str and an Optional list
NotStr(o) == ~TruthyStr(o)
NotList(o) == ~Truthy(o)

\* (mutant) "if query is None" in place of "if not query"
RejectsOnlyMissing(tool, args) ==
    IF tool = "faceted_search"
    THEN args.query.isNone \/ NotList(args.facet_fields)
    ELSE args.query.isNone

\* The check that opens each handler: "if not query" (lines 262, 296, 378
\* and 414), "if not query or not facet_fields" (line 335).
Rejects(tool, args) ==
    IF tool = "faceted_search"
    THEN NotStr(args.query) \/ NotList(args.facet_fields)
    ELSE NotStr(args.query)

RejectMessage(tool) ==
    IF tool = "faceted_search"
    THEN "Query and facet_fields parameters are required"
    ELSE "Query parameter is required"

\* arguments.get("rows", 10)
ToolRows(args) == IF args.rows.isNone THEN Some(10) ELSE args.rows

\* The keyword arguments with which each handler calls search(), lines 267,
\* 301-309, 343-345 and 383-385; a key the tool call does not give is None.
ToolRequest(tool, args) ==
    IF tool = "faceted_search"
    THEN Request(args.query.v, None, ToolRows(args), None, args.facet_fields, None, FALSE)
    ELSE Request(args.query.v, None, ToolRows(args), None, None, None, FALSE)

\* {"id": result.id, "score": result.score, "fields": result.fields}
BriefResults(results) ==
    [i \in 1..Len(results) |->
        [id |-> results[i].id, score |-> results[i].score, fields |-> results[i].fields]]

\* The result each handler serializes from the SearchResponse.
ToolResult(tool, response) ==
    CASE tool = "faceted_search" ->
            [total_found |-> response.total_found,
             query_time |-> response.query_time,
             facets |-> IF response.facets.isNone THEN <<>> ELSE response.facets.v,
             results |-> BriefResults(response.results)]
      [] tool = "search_with_highlighting" ->
            [total_found |-> response.total_found, start |-> response.start,
             rows |-> response.rows, query_time |-> response.query_time,
             results |-> response.results]
      [] tool = "get_suggestions" -> [suggestions |-> response]
      [] OTHER ->
            [total_found |-> response.total_found, start |-> response.start,
             rows |-> response.rows, query_time |-> response.query_time,
             results |-> BriefResults(response.results)]

\* What a call ends with: the outcome o of the client operation itself, or,
\* when a handler made the call, what handle_call_tool makes of it.
ViaTool(c, o) ==
    IF c.tool = "" THEN o
    ELSE IF o.kind = "return" THEN Returned(ToolResult(c.tool, o.val))
    ELSE HandleCallTool(o)

\* The keyword arguments of the self._solr.search(...) call of the operation
\* c: lines 271, 294-299, 329 and 345.
WireParams(cfg, c) ==
    CASE c.op = "search" -> SearchParams(cfg, c.arg).params
      [] c.op = "suggest_query" ->
            ("q" :> (IF c.tool = "" THEN SuggestQuery ELSE c.args.query.v))
                @@ ("rows" :> 0) @@ ("spellcheck" :> "true")
                @@ ("spellcheck.count" :> c.arg) @@ ("spellcheck.build" :> "true")
      [] c.op = "get_schema_fields" ->
            ("q" :> "*:*") @@ ("rows" :> 1) @@ ("fl" :> <<"*">>)
      [] c.op = "get_collection_stats" ->
            ("q" :> "*:*") @@ ("rows" :> 0)

\* The engine returns at most "rows" documents of the matches it counts in
\* hits; a health probe has no rows parameter.
EngineHonoursRows(cfg, c, r) ==
    IF c.op = "ping" THEN TRUE ELSE Len(r.docs) <= WireParams(cfg, c)["rows"]

\* What the call of task t returns for the raw reply r.
OnReply(t, r) ==
    ViaTool(call[t],
        CASE call[t].op = "ping"                 -> Returned(TRUE)
          [] call[t].op = "search"               -> SearchReturns(r, hashSeed)
          [] call[t].op = "suggest_query"        -> SuggestReturns(r, call[t].arg)
          [] call[t].op = "get_schema_fields"    -> SchemaFieldsReturns(r)
          [] call[t].op = "get_collection_stats" -> StatsReturns(config, r))

\* What the call of task t does with the exception e of the transport.
OnException(t, e) ==
    ViaTool(call[t],
        CASE call[t].op = "ping"   -> PingOnException(e)
          [] call[t].op = "search" -> WrapQueryError(e)
          [] OTHER                 -> BestEffortDefault(call[t].op))

\* (mutant) a transport that keeps one response for the whole client: the
\* reply to the request of one task ends every search that waits for one
ReplyArrivesShared(t, r) ==
    /\ tpc[t] = "inflight"
    /\ EngineHonoursRows(config, call[t], r)
    /\ tpc' = [u \in Tasks |->
                  IF u = t \/ (tpc[u] = "inflight" /\ call[u].op = "search")
                  THEN "idle" ELSE tpc[u]]
    /\ got' = [got EXCEPT ![t] = GotReply(r)]
    /\ out' = [u \in Tasks |->
                  IF u = t \/ (tpc[u] = "inflight" /\ call[u].op = "search")
                  THEN OnReply(u, r) ELSE out[u]]
    /\ UNCHANGED <<call, sent>>
    /\ UNCHANGED <<fnVars, srvVars, config, hashSeed, solr, initVars, closed>>

\* The engine answers the request of task t with the raw reply r.
ReplyArrives(t, r) ==
    /\ tpc[t] = "inflight"
    /\ EngineHonoursRows(config, call[t], r)
    /\ Ends(t, GotReply(r), OnReply(t, r))
    /\ UNCHANGED <<fnVars, srvVars, config, hashSeed, solr, initVars, closed>>

\* (mutant) the request that failed is issued once more
ExchangeRaisesRetries(t, e) ==
    /\ tpc[t] = "inflight"
    /\ IF sent[t] < 2
       THEN /\ sent' = [sent EXCEPT ![t] = sent[t] + 1]
            /\ UNCHANGED <<tpc, call, got, out>>
       ELSE Ends(t, GotException(e), OnException(t, e))
    /\ UNCHANGED <<fnVars, srvVars, config, hashSeed, solr, initVars, closed>>

\* (mutant) an exchange that drops the handle of the client when it fails
ExchangeRaisesDropsHandle(t, e) ==
    /\ tpc[t] = "inflight"
    /\ Ends(t, GotException(e), OnException(t, e))
    /\ solr' = "None"
    /\ UNCHANGED <<fnVars, srvVars, config, hashSeed, initVars, closed>>

\* The exchange of task t raises e; no except clause issues the request again.
ExchangeRaises(t, e) ==
    /\ tpc[t] = "inflight"
    /\ Ends(t, GotException(e), OnException(t, e))
    /\ UNCHANGED <<fnVars, srvVars, config, hashSeed, solr, initVars, closed>>

\* close(), lines 427-432: if self._solr: self._solr = None
CloseHandle(handle) == IF handle = "Solr" THEN "None" ELSE handle

\* (mutant) a close() that uses the handle without the check
CloseRaisesWhenReleased(handle) ==
    IF handle = "Solr" THEN Returned(None)
    ELSE Raised("AttributeError", <<ExcMsg("AttributeError")>>)

\* close() has no statement that raises: it returns None.
CloseOutcome(handle) == Returned(None)

\* close(), and __exit__, which only calls it.
Close(t) ==
    /\ CanCall(t)
    /\ solr' = CloseHandle(solr)
    /\ closed' = TRUE
    /\ EndsAtOnce(t, Call("close", <<>>), CloseOutcome(solr))
    /\ UNCHANGED <<fnVars, srvVars, config, hashSeed, initVars>>

Operate ==
    \E t \in Tasks :
        \/ PingCall(t)
        \/ PingSend(t)
        \/ \E req \in Requests : SearchCall(t, req)
        \/ \E count \in SuggestCounts : BestEffortCall(t, "suggest_query", count)
        \/ BestEffortCall(t, "get_schema_fields", <<>>)
        \/ BestEffortCall(t, "get_collection_stats", <<>>)
        \/ \E r \in Replies : ReplyArrives(t, r)
        \/ \E e \in TransportExceptions : ExchangeRaises(t, e)
        \/ Close(t)

Next == Construct \/ Operate

Spec == Init /\ [][Next]_vars

\* ------------------------------------------------------------------------
\* The server: the tasks call the client through the tool handlers
\* ------------------------------------------------------------------------

\* A client that construction has returned, with nothing called yet.
ConstructedClient ==
    /\ config \in Configs
    /\ hashSeed \in HashSeeds
    /\ solr = "Solr"
    /\ pc = "ready"
    /\ attempt = 0
    /\ probes = 1
    /\ waits = <<>>
    /\ initError = NoOutcome
    /\ closed = FALSE
    /\ tpc = [t \in Tasks |-> "idle"]
    /\ call = [t \in Tasks |-> NoCall]
    /\ sent = [t \in Tasks |-> 0]
    /\ got = [t \in Tasks |-> Nothing]
    /\ out = [t \in Tasks |-> NoOutcome]

\* handle_call_tool for a tool of SearchTools, up to the engine call of
\* search(): the handler rejects the arguments, or calls search(), which
\* raises at once or hands its request to the transport.
HandleSearchTool(t, tool, args) ==
    /\ CanCall(t)
    /\ IF Rejects(tool, args)
       THEN EndsAtOnce(t, ToolCall(tool, args, "none", <<>>),
                       HandleCallTool(McpError("INVALID_PARAMS", <<RejectMessage(tool)>>)))
       ELSE LET req == ToolRequest(tool, args)
                c == ToolCall(tool, args, "search", req)
                p == SearchParams(config, req)
            IN  IF ~p.ok
                THEN EndsAtOnce(t, c, ViaTool(c, WrapQueryError(p.exc)))
                ELSE IF solr = "None"
                THEN EndsAtOnce(t, c, ViaTool(c, WrapQueryError("AttributeError")))
                ELSE SendsRequest(t, c)
    /\ UNCHANGED <<fnVars, srvVars, config, hashSeed, solr, initVars, closed>>

\* arguments.get("count", 5)
ToolCount(args) == IF args.count.isNone THEN 5 ELSE args.count.v

\* handle_call_tool for get_suggestions, lines 407-425, up to the engine
\* call of suggest_query().
HandleGetSuggestions(t, args) ==
    /\ CanCall(t)
    /\ IF Rejects("get_suggestions", args)
       THEN EndsAtOnce(t, ToolCall("get_suggestions", args, "none", <<>>),
                       HandleCallTool(McpError("INVALID_PARAMS",
                                               <<RejectMessage("get_suggestions")>>)))
       ELSE LET c == ToolCall("get_suggestions", args, "suggest_query", ToolCount(args))
            IN  IF solr = "None"
                THEN EndsAtOnce(t, c, ViaTool(c, BestEffortDefault("suggest_query")))
                ELSE SendsRequest(t, c)
    /\ UNCHANGED <<fnVars, srvVars, config, hashSeed, solr, initVars, closed>>

\* The tools handle_call_tool dispatches on, lines 224-239.
KnownTools ==
    SearchTools \cup {"get_suggestions", "get_schema_fields",
                      "get_collection_stats", "ping_solr"}

\* A tool name that the server does not list.
UnknownTools == {"delete_documents"}

\* handle_call_tool for a name that matches no branch, lines 240-243: the
\* else branch raises inside the try.
HandleUnknownTool(t, name) ==
    /\ CanCall(t)
    /\ name \notin KnownTools
    /\ EndsAtOnce(t, ToolCall(name, ToolArgs(Some("solr"), None, None), "none", <<>>),
                  HandleCallTool(McpError("INVALID_PARAMS", <<"Unknown tool: ", name>>)))
    /\ UNCHANGED <<fnVars, srvVars, config, hashSeed, solr, initVars, closed>>

\* The server's client, constructed, under each row maximum.
InitServer ==
    /\ ConstructedClient
    /\ config.highlight_enabled
    /\ hashSeed = "0"
    /\ fnIn = <<>>
    /\ fnOut = NoOutcome
    /\ srv = NoServer

NextServer ==
    \E t \in Tasks :
        \/ \E tool \in SearchTools, args \in ToolArguments : HandleSearchTool(t, tool, args)
        \/ \E args \in ToolArguments : HandleGetSuggestions(t, args)
        \/ \E name \in UnknownTools : HandleUnknownTool(t, name)
        \/ \E r \in Replies : ReplyArrives(t, r)
        \/ \E e \in TransportExceptions : ExchangeRaises(t, e)
        \/ Close(t)

SpecServer == InitServer /\ [][NextServer]_vars

\* ------------------------------------------------------------------------
\* run_server (server.py) under main_async (main.py): construction of the
\* server, the startup checks of run(), the serving loop, and the end
\* ------------------------------------------------------------------------

\* What the serving loop may raise.
LoopExceptions == {"OSError"}

\* server.cleanup(), lines 494-498, in the finally clause of run_server:
\* the client object is truthy, so close() is called; run_server ends with o.
RunServerEnds(s, o) ==
    /\ srv' = [s EXCEPT !.pc = "ended", !.end = o]
    /\ solr' = CloseHandle(solr)
    /\ closed' = TRUE

\* server = SOLRMCPServer(config) raises what SOLRClient(...) raised; the
\* statement stands before the try, and no server exists to clean up.
ConstructionRaises ==
    /\ srv.pc = "construct"
    /\ pc = "failed"
    /\ srv' = [srv EXCEPT !.pc = "ended", !.end = initError]
    /\ UNCHANGED <<fnVars, clientVars>>

\* (mutant) a run() that pings without looking at the result
StartupPingFailsIgnored(e) ==
    /\ srv.pc = "construct"
    /\ pc = "ready"
    /\ srv' = [srv EXCEPT !.pc = "pinged", !.ping = PingOnException(e)]
    /\ UNCHANGED <<fnVars, clientVars>>

\* run(), line 462: the probe of self.solr_client.ping() raises e, ping()
\* returns False and run() raises RuntimeError.
StartupPingFails(e) ==
    /\ srv.pc = "construct"
    /\ pc = "ready"
    /\ LET o == PingOnException(e)
       IN  IF o.kind = "return" /\ o.val = FALSE
           THEN RunServerEnds([srv EXCEPT !.ping = o],
                              Raised("RuntimeError", <<"Failed to connect to SOLR">>))
           ELSE RunServerEnds([srv EXCEPT !.ping = o], o)
    /\ UNCHANGED <<fnVars, config, hashSeed, initVars, taskVars>>

\* run(), line 462: the probe returns, ping() returns True and run() goes on.
StartupPingSucceeds ==
    /\ srv.pc = "construct"
    /\ pc = "ready"
    /\ srv' = [srv EXCEPT !.pc = "pinged", !.ping = Returned(TRUE)]
    /\ UNCHANGED <<fnVars, clientVars>>

\* run(), lines 470-480: RuntimeError when STDIN is a terminal; otherwise
\* the stdio streams are opened and the serving loop is entered.
StdinCheck(isatty) ==
    /\ srv.pc = "pinged"
    /\ IF isatty
       THEN /\ RunServerEnds(srv, Raised("RuntimeError", <<"This MCP server requires STDIN">>))
            /\ UNCHANGED <<config, hashSeed, initVars, taskVars>>
       ELSE /\ srv' = [srv EXCEPT !.pc = "serving"]
            /\ UNCHANGED clientVars
    /\ UNCHANGED fnVars

\* The serving loop dispatches a call of the search tool to its handler.
ServeTool(t) ==
    /\ srv.pc = "serving"
    /\ \E args \in ToolArguments : HandleSearchTool(t, "search", args)

\* await self.server.run(...) returns: the client closed the streams.
LoopEnds ==
    /\ srv.pc = "serving"
    /\ RunServerEnds(srv, Returned(None))
    /\ UNCHANGED <<fnVars, config, hashSeed, initVars, taskVars>>

\* await self.server.run(...) raises e.
LoopRaises(e) ==
    /\ srv.pc = "serving"
    /\ RunServerEnds(srv, Raised(e, <<ExcMsg(e)>>))
    /\ UNCHANGED <<fnVars, config, hashSeed, initVars, taskVars>>

\* signal_handler: SIGINT or SIGTERM sets the shutdown event, at any time
\* while run_server runs.
Signal ==
    /\ srv.pc \in {"construct", "pinged", "serving"}
    /\ ~srv.shutdown
    /\ srv' = [srv EXCEPT !.shutdown = TRUE]
    /\ UNCHANGED <<fnVars, clientVars>>

\* (mutant) a run_server that cleans up in "except Exception", which a
\* cancellation passes by
CancelSkipsCleanup ==
    /\ srv.pc = "serving"
    /\ srv.shutdown
    /\ srv' = [srv EXCEPT !.pc = "ended",
                          !.end = Raised("CancelledError", <<ExcMsg("CancelledError")>>)]
    /\ UNCHANGED <<fnVars, clientVars>>

\* main_async cancels the server task once the shutdown event is set: the
\* task is cancelled where it is suspended, which is in the await of run();
\* construction and the startup checks do not yield to the event loop.
Cancel ==
    /\ srv.pc = "serving"
    /\ srv.shutdown
    /\ RunServerEnds(srv, Raised("CancelledError", <<ExcMsg("CancelledError")>>))
    /\ UNCHANGED <<fnVars, config, hashSeed, initVars, taskVars>>

\* run_server is called with the default configuration.
InitRun ==
    /\ config = DefaultConfig
    /\ hashSeed = "0"
    /\ solr = "None"
    /\ pc = "new"
    /\ attempt = 0
    /\ probes = 0
    /\ waits = <<>>
    /\ initError = NoOutcome
    /\ closed = FALSE
    /\ tpc = [t \in Tasks |-> "idle"]
    /\ call = [t \in Tasks |-> NoCall]
    /\ sent = [t \in Tasks |-> 0]
    /\ got = [t \in Tasks |-> Nothing]
    /\ out = [t \in Tasks |-> NoOutcome]
    /\ fnIn = <<>>
    /\ fnOut = NoOutcome
    /\ srv = [pc |-> "construct", shutdown |-> FALSE, ping |-> NoOutcome,
              end |-> NoOutcome]

NextRun ==
    \/ Construct
    \/ ConstructionRaises
    \/ StartupPingSucceeds
    \/ \E e \in TransportExceptions : StartupPingFails(e)
    \/ \E isatty \in BOOLEAN : StdinCheck(isatty)
    \/ \E t \in Tasks : ServeTool(t)
    \/ \E t \in Tasks, r \in Replies : ReplyArrives(t, r)
    \/ \E t \in Tasks, e \in TransportExceptions : ExchangeRaises(t, e)
    \/ LoopEnds
    \/ \E e \in LoopExceptions : LoopRaises(e)
    \/ Signal
    \/ Cancel

SpecRun == InitRun /\ [][NextRun]_vars

\* ------------------------------------------------------------------------
\* The query builder alone: search() up to its parameter set, on every
\* request of BuildRequests under every configuration
\* ------------------------------------------------------------------------

BuildRequests ==
    {Request(q, f, r, fq, ff, hf, sg) :
        q \in {"solr", ""},
        f \in {None, Some(<<>>), Some(<<"id", "title">>), Some(<<"title", NonStr>>)},
        r \in {None, Some(0), Some(10), Some(5000)},
        fq \in {None, Some(<<>>), Some(<<"type:document", "status:published">>)},
        ff \in {None, Some(<<"category">>)},
        hf \in {None, Some(<<>>), Some(<<"title">>), Some(<<"title", "body">>),
                Some(<<NonStr>>)},
        sg \in BOOLEAN}

InitBuild ==
    /\ ConstructedClient
    /\ hashSeed = "0"
    /\ fnIn \in BuildRequests
    /\ fnOut = NoOutcome
    /\ srv = NoServer

\* search() builds the parameters of the request fnIn.
BuildParams ==
    /\ fnOut = NoOutcome
    /\ fnOut' = SearchParams(config, fnIn)
    /\ UNCHANGED <<fnIn, clientVars, srvVars>>

SpecBuild == InitBuild /\ [][BuildParams]_vars

\* ------------------------------------------------------------------------
\* The normalizer alone: what search() returns for every raw reply the
\* engine composes
\* ------------------------------------------------------------------------

\* The engine composes the facet section of its reply: it starts a reply
\* from one of Replies, or one with an empty facet_fields mapping, and adds
\* facet fields and the elements of their flat sequences one at a time.
InitNorm ==
    /\ ConstructedClient
    /\ config = DefaultConfig
    /\ fnIn \in Replies \cup MoreReplies
                 \cup {RawReply(<<Doc1>>, TRUE, 9, Some(<<>>), None, None)}
    /\ fnOut = NoOutcome
    /\ srv = NoServer

\* The reply gets its next facet field, with an empty sequence so far.
AddFacetField ==
    /\ fnOut = NoOutcome
    /\ ~fnIn.facets.isNone
    /\ Len(fnIn.facets.v) < Len(FacetNames)
    /\ fnIn' = [fnIn EXCEPT !.facets =
                   Some(Append(fnIn.facets.v,
                               <<FacetNames[Len(fnIn.facets.v) + 1], <<>>>>))]
    /\ UNCHANGED <<fnOut, clientVars, srvVars>>

\* The sequence of the reply's last facet field gets its next element.
AddFacetElem(e) ==
    /\ fnOut = NoOutcome
    /\ ~fnIn.facets.isNone
    /\ fnIn.facets.v # <<>>
    /\ LET k == Len(fnIn.facets.v)
           name == fnIn.facets.v[k][1]
           seq == fnIn.facets.v[k][2]
       IN  /\ name \in {FacetNames[i] : i \in 1..Len(FacetNames)}
           /\ Len(seq) < MaxFacetLen
           /\ fnIn' = [fnIn EXCEPT !.facets =
                          Some([fnIn.facets.v EXCEPT ![k] = <<name, Append(seq, e)>>])]
    /\ UNCHANGED <<fnOut, clientVars, srvVars>>

\* search() receives the raw reply fnIn and normalizes it.
Normalize ==
    /\ fnOut = NoOutcome
    /\ fnOut' = SearchReturns(fnIn, hashSeed)
    /\ UNCHANGED <<fnIn, clientVars, srvVars>>

NextNorm ==
    \/ AddFacetField
    \/ \E e \in FacetElems : AddFacetElem(e)
    \/ Normalize

SpecNorm == InitNorm /\ [][NextNorm]_vars

\* ------------------------------------------------------------------------
\* Configuration (config.py): the validators of SOLRConfig and MCPConfig on
\* the numbers a deployment may give
\* ------------------------------------------------------------------------

\* (mutant) a timeout check that lets zero through
validate_timeout_negative(v) ==
    IF v < 0
    THEN Raised("ValueError", <<"Timeout must be positive">>)
    ELSE Returned(v)

\* validate_timeout, lines 56-61
validate_timeout(v) ==
    IF v <= 0
    THEN Raised("ValueError", <<"Timeout must be positive">>)
    ELSE Returned(v)

\* validate_max_rows, lines 63-70
validate_max_rows(v) ==
    IF v <= 0
    THEN Raised("ValueError", <<"Max rows must be positive">>)
    ELSE IF v > 10000
    THEN Raised("ValueError",
                <<"Max rows should not exceed 10000 for performance reasons">>)
    ELSE Returned(v)

\* validate_port, lines 80-85
validate_port(v) ==
    IF ~(1 <= v /\ v <= 65535)
    THEN Raised("ValueError", <<"Port must be between 1 and 65535">>)
    ELSE Returned(v)

\* SOLRConfig(timeout=..., max_rows=...): pydantic runs the validator of
\* each field and raises one ValidationError that lists every ValueError;
\* otherwise the object holds the values the validators returned.
SOLRConfig(timeout, max_rows) ==
    LET t == validate_timeout(timeout)
        m == validate_max_rows(max_rows)
    IN  IF t.kind = "raise" \/ m.kind = "raise"
        THEN Raised("ValidationError", t.msg \o m.msg)
        ELSE Returned([timeout |-> t.val, max_rows |-> m.val])

\* MCPConfig(port=...)
MCPConfig(port) ==
    LET p == validate_port(port)
    IN  IF p.kind = "raise"
        THEN Raised("ValidationError", p.msg)
        ELSE Returned([port |-> p.val])

\* The numbers given: around each limit of the three validators, and the
\* defaults 30, 1000 and 8080.
Timeouts == {-1, 0, 1, 30}
MaxRows == {-1, 0, 1, 1000, 10000, 10001, 20000}
Ports == {-1, 0, 1, 8080, 65535, 65536}

\* No client exists yet while the configuration is built.
InitConfig ==
    /\ config = DefaultConfig
    /\ hashSeed = "0"
    /\ solr = "None"
    /\ pc = "new"
    /\ attempt = 0
    /\ probes = 0
    /\ waits = <<>>
    /\ initError = NoOutcome
    /\ closed = FALSE
    /\ tpc = [t \in Tasks |-> "idle"]
    /\ call = [t \in Tasks |-> NoCall]
    /\ sent = [t \in Tasks |-> 0]
    /\ got = [t \in Tasks |-> Nothing]
    /\ out = [t \in Tasks |-> NoOutcome]
    /\ fnIn \in [timeout : Timeouts, max_rows : MaxRows, port : Ports]
    /\ fnOut = [solr |-> NoOutcome, mcp |-> NoOutcome]
    /\ srv = NoServer

\* Config.from_env builds the SOLRConfig, lines 150-162.
BuildSOLRConfig ==
    /\ fnOut.solr = NoOutcome
    /\ fnOut' = [fnOut EXCEPT !.solr = SOLRConfig(fnIn.timeout, fnIn.max_rows)]
    /\ UNCHANGED <<fnIn, clientVars, srvVars>>

\* Config.from_env builds the MCPConfig, lines 168-172, once the SOLRConfig
\* is built.
BuildMCPConfig ==
    /\ fnOut.solr.kind = "return"
    /\ fnOut.mcp = NoOutcome
    /\ fnOut' = [fnOut EXCEPT !.mcp = MCPConfig(fnIn.port)]
    /\ UNCHANGED <<fnIn, clientVars, srvVars>>

NextConfig == BuildSOLRConfig \/ BuildMCPConfig

SpecConfig == InitConfig /\ [][NextConfig]_vars

\* ------------------------------------------------------------------------
\* Claims about the lifecycle (Spec)
\* ------------------------------------------------------------------------

Idle(t) == pc = "ready" /\ tpc[t] = "idle"

\* The message m contains the text c
Contains(m, c) == \E i \in 1..Len(m) : m[i] = c

\* C1: when every health probe of the construction fails, exactly 3 probes
\* are made, the waits between them are 500 ms then 1000 ms (0.5 s times the
\* attempt number), and construction fails with SOLRConnectionError; there is
\* never a 4th probe.
C1_ProbeRetryBudget ==
    /\ probes <= 3
    /\ pc = "probing" =>
          /\ probes < 3
          /\ waits = [i \in 1..probes |-> 500 * i]
    /\ pc = "failed" =>
          /\ probes = 3
          /\ waits = <<500, 1000>>
          /\ initError.kind = "raise"
          /\ initError.exc = "SOLRConnectionError"

C1_Witness == pc = "failed" /\ probes = 3 /\ Len(waits) = 2

\* C2: ping() never raises; it returns False when the handle is released or
\* the probe raised any exception, and True only when a probe was sent on an
\* open handle and came back without exception.
C2_PingNeverRaises ==
    \A t \in Tasks :
        (Idle(t) /\ call[t].op = "ping") =>
            /\ out[t].kind = "return"
            /\ out[t].val \in BOOLEAN
            /\ got[t].kind = "exception" => out[t].val = FALSE
            /\ call[t].afterClose => (out[t].val = FALSE /\ sent[t] = 0)
            /\ out[t].val = TRUE => (got[t].kind = "reply" /\ sent[t] = 1)

C2_Witness ==
    \E t \in Tasks :
        /\ Idle(t) /\ call[t].op = "ping"
        /\ got[t].kind = "exception"
        /\ out[t] = Returned(FALSE)

\* A raw reply on which _process_search_response raises: documents that are
\* not mappings, a facet count that is not an int, or spellcheck suggestions
\* that are not a mapping.
MalformedReply(r) ==
    \/ r.docs # <<>> /\ ~r.docsAreDicts
    \/ /\ ~r.facets.isNone
       /\ \E k \in 1..Len(r.facets.v) :
             \E i \in 1..Len(r.facets.v[k][2]) :
                 i % 2 = 0 /\ r.facets.v[k][2][i].kind # "int"
    \/ ~r.spellcheck.isNone /\ r.spellcheck.v.shape # "map"

\* A request whose return-field or highlight-field list holds a non-str.
HasNonStr(o) == ~o.isNone /\ \E i \in 1..Len(o.v) : o.v[i] = NonStr

\* C3: every failure of search() (the transport raises, the engine reports an
\* error, building the parameters raises, normalizing the reply raises)
\* surfaces as SOLRQueryError whose message contains the cause's message; no
\* other exception type escapes and no SearchResponse is returned on failure.
C3_SearchFailsAsQueryError ==
    \A t \in Tasks :
        (Idle(t) /\ call[t].op = "search") =>
            /\ out[t].kind \in {"return", "raise"}
            /\ out[t].kind = "raise" =>
                  /\ out[t].exc = "SOLRQueryError"
                  /\ out[t].val = <<>>
            /\ got[t].kind = "exception" =>
                  /\ out[t].kind = "raise"
                  /\ Contains(out[t].msg, ExcMsg(got[t].exc))
            /\ got[t].kind = "none" =>
                  /\ out[t].kind = "raise"
                  /\ Contains(out[t].msg,
                              IF \/ HasNonStr(call[t].arg.fields)
                                 \/ /\ config.highlight_enabled
                                    /\ HasNonStr(call[t].arg.highlight_fields)
                              THEN ExcMsg("TypeError") ELSE ExcMsg("AttributeError"))
            /\ (got[t].kind = "reply" /\ MalformedReply(got[t].reply)) =>
                  /\ out[t].kind = "raise"
                  /\ \E e \in {"ValidationError", "AttributeError"} :
                        Contains(out[t].msg, ExcMsg(e))
            /\ out[t].kind = "return" =>
                  (got[t].kind = "reply" /\ ~MalformedReply(got[t].reply))

C3_Witness ==
    \E t \in Tasks :
        /\ Idle(t) /\ call[t].op = "search"
        /\ got[t].kind = "exception" /\ got[t].exc = "Timeout"
        /\ out[t].kind = "raise" /\ out[t].exc = "SOLRQueryError"
        /\ Contains(out[t].msg, ExcMsg("Timeout"))

\* C4: once close() has been called the handle stays released in every later
\* state, an operation called afterwards sends no request to the engine, and
\* a search() called afterwards ends at once with an error, not a result.
C4_FailFastAfterClose ==
    /\ closed => solr = "None"
    /\ \A t \in Tasks :
          call[t].afterClose =>
              /\ sent[t] = 0
              /\ tpc[t] = "idle"
              /\ got[t].kind = "none"
              /\ call[t].op = "search" => out[t].kind = "raise"

C4_Witness ==
    \E t \in Tasks :
        /\ closed /\ solr = "None"
        /\ call[t].op = "search" /\ call[t].afterClose
        /\ out[t].kind = "raise" /\ sent[t] = 0

\* C5: close() is idempotent: a close() called after close() (directly or by
\* the context-manager exit) does not raise and leaves the handle released,
\* as the first one did.
C5_CloseIdempotent ==
    \A t \in Tasks :
        call[t].op = "close" =>
            /\ out[t] = Returned(None)
            /\ solr = "None"
            /\ closed

C5_Witness ==
    \E t \in Tasks :
        /\ call[t].op = "close" /\ call[t].afterClose
        /\ out[t] = Returned(None)
        /\ solr = "None"

\* C6: no call of search(), suggest_query(), get_schema_fields() or
\* get_collection_stats() issues more than one request to the engine, and a
\* request that failed is not issued again: the call has ended with that one
\* request.  Only the probe loop of the construction issues several.
C6_NoQueryRetry ==
    \A t \in Tasks :
        /\ sent[t] <= 1
        /\ got[t].kind = "exception" => (tpc[t] = "idle" /\ sent[t] = 1)
        /\ tpc[t] = "inflight" => (sent[t] = 1 /\ got[t].kind = "pending")

C6_Witness ==
    /\ probes > 1
    /\ \E t \in Tasks :
          /\ call[t].op \in {"search", "suggest_query", "get_schema_fields",
                             "get_collection_stats"}
          /\ got[t].kind = "exception" /\ tpc[t] = "idle" /\ sent[t] = 1

\* A raw reply whose parsing raises in the best-effort operation op.
ParseFails(op, r) ==
    \/ op = "suggest_query" /\ ~r.spellcheck.isNone /\ r.spellcheck.v.shape # "map"
    \/ op = "get_schema_fields" /\ r.docs # <<>> /\ ~r.docsAreDicts

BestEffortOps == {"suggest_query", "get_schema_fields", "get_collection_stats"}

\* C7: suggest_query(), get_schema_fields() and get_collection_stats() never
\* raise; when the engine call fails (the transport raises, the handle is
\* released) or parsing the reply fails, they return their empty default.
C7_BestEffortNeverRaises ==
    \A t \in Tasks :
        (Idle(t) /\ call[t].op \in BestEffortOps) =>
            /\ out[t].kind = "return"
            /\ got[t].kind \in {"exception", "none"} => out[t].val = <<>>
            /\ (got[t].kind = "reply" /\ ParseFails(call[t].op, got[t].reply)) =>
                  out[t].val = <<>>

C7_Witness ==
    /\ \E t \in Tasks :
          /\ Idle(t) /\ call[t].op = "suggest_query"
          /\ got[t].kind = "reply" /\ ParseFails("suggest_query", got[t].reply)
          /\ out[t] = Returned(<<>>)
    /\ \E t \in Tasks :
          /\ Idle(t) /\ call[t].op = "get_collection_stats"
          /\ got[t].kind = "exception"
          /\ out[t] = Returned(<<>>)

\* C13: a search with row count 0 that returns has an empty result list and
\* a result count of 0, whatever total the engine reports: the 0 goes to the
\* engine as it is, and the response has one result per returned document.
C13_ZeroRowsNoResults ==
    \A t \in Tasks :
        (/\ Idle(t) /\ call[t].op = "search"
         /\ ~call[t].arg.rows.isNone /\ call[t].arg.rows.v = 0
         /\ sent[t] = 1) =>
            /\ WireParams(config, call[t])["rows"] = 0
            /\ out[t].kind = "return" =>
                  /\ out[t].val.results = <<>>
                  /\ out[t].val.rows = 0
                  /\ out[t].val.total_found = got[t].reply.hits

\* A facet-only query: no rows asked, 7 matches counted, no result returned.
C13_Witness ==
    \E t \in Tasks :
        /\ Idle(t) /\ call[t].op = "search"
        /\ ~call[t].arg.rows.isNone /\ call[t].arg.rows.v = 0
        /\ out[t].kind = "return"
        /\ out[t].val.total_found = 7
        /\ out[t].val.results = <<>>

\* The entries of the suggestions mapping of a raw reply.
SpellEntries(r) == IF r.spellcheck.isNone THEN <<>> ELSE r.spellcheck.v.entries

\* The entry e of the suggestions mapping carries a suggestion list.
HasList(e) == e[2].isDict /\ e[2].hasSuggestion

\* C14: suggest_query(query, count) returns, for every term of the reply
\* whose entry has a suggestion list, the first min(count, length)
\* candidates of the list in the engine's order; no returned list is longer
\* than count, and a term whose entry has no suggestion list is not returned.
C14_SuggestTruncated ==
    \A t \in Tasks :
        (/\ Idle(t) /\ call[t].op = "suggest_query"
         /\ got[t].kind = "reply"
         /\ ~ParseFails("suggest_query", got[t].reply)) =>
            LET es == SpellEntries(got[t].reply)
                count == call[t].arg
                res == out[t].val
            IN  /\ out[t].kind = "return"
                /\ \A i \in 1..Len(es) :
                      HasList(es[i]) =>
                          \E j \in 1..Len(res) :
                              /\ res[j][1] = es[i][1]
                              /\ Len(res[j][2]) = Min(count, Len(es[i][2].suggestion))
                              /\ \A k \in 1..Len(res[j][2]) :
                                    res[j][2][k] = es[i][2].suggestion[k]
                /\ \A j \in 1..Len(res) :
                      /\ Len(res[j][2]) <= count
                      /\ \E i \in 1..Len(es) : HasList(es[i]) /\ es[i][1] = res[j][1]
                /\ Len(res) = Cardinality({i \in 1..Len(es) : HasList(es[i])})

\* suggest_query("documnt", 2) on three candidates: the first two are kept,
\* and the term without a list is left out.
C14_Witness ==
    \E t \in Tasks :
        /\ Idle(t) /\ call[t].op = "suggest_query" /\ call[t].arg = 2
        /\ got[t].kind = "reply"
        /\ Len(SpellEntries(got[t].reply)) = 3
        /\ out[t] = Returned(<<<<"documnt", <<"document", "documents">>>>>>)

\* ------------------------------------------------------------------------
\* Claims about the normalizer (SpecNorm)
\* ------------------------------------------------------------------------

\* search() has returned a SearchResponse for the raw reply fnIn.
Normalized == fnOut.kind = "return"

\* The facet_fields section of the raw reply, empty when there is none.
RawFacetFields == IF fnIn.facets.isNone THEN <<>> ELSE fnIn.facets.v

\* The FacetField list of the response, empty when the attribute is None.
FacetList == IF fnOut.val.facets.isNone THEN <<>> ELSE fnOut.val.facets.v

\* The positions of the response's FacetField of the given name.
FacetFieldsNamed(name) == {j \in 1..Len(FacetList) : FacetList[j].name = name}

\* C8: facet decoding pairs positionally and keeps the order: for a raw flat
\* sequence [v0, c0, v1, c1, ...] the FacetField of that name lists exactly
\* the pairs (str(v_i), c_i), i < floor(len / 2), in the original order; a
\* trailing unpaired element is dropped.
C8_FacetPairsInOrder ==
    Normalized =>
        \A k \in 1..Len(RawFacetFields) :
            LET raw == RawFacetFields[k][2]
                n == Len(raw) \div 2
            IN  n > 0 =>
                  /\ Cardinality(FacetFieldsNamed(RawFacetFields[k][1])) = 1
                  /\ \A j \in FacetFieldsNamed(RawFacetFields[k][1]) :
                        /\ Len(FacetList[j].values) = n
                        /\ \A i \in 1..n :
                              /\ FacetList[j].values[i].value = raw[2 * i - 1].s
                              /\ FacetList[j].values[i].count = raw[2 * i].n

\* Two pairs with different counts kept in order, and a sequence of odd
\* length whose last element is dropped.
C8_Witness ==
    /\ Normalized
    /\ Len(RawFacetFields) = 2
    /\ Len(RawFacetFields[1][2]) = 4
    /\ RawFacetFields[1][2][2].n # RawFacetFields[1][2][4].n
    /\ Len(RawFacetFields[2][2]) = 3
    /\ Len(FacetList) = 2
    /\ Len(FacetList[1].values) = 2
    /\ FacetList[1].values[1].count = RawFacetFields[1][2][2].n
    /\ Len(FacetList[2].values) = 1

\* C9: the facets attribute of a SearchResponse is None or a non-empty list
\* of FacetField with non-empty value lists: a field that decodes to no
\* value does not appear, and when every field decodes empty the attribute
\* is None, not an empty list.
C9_NoEmptyFacets ==
    Normalized =>
        /\ ~fnOut.val.facets.isNone => fnOut.val.facets.v # <<>>
        /\ \A j \in 1..Len(FacetList) : FacetList[j].values # <<>>
        /\ \A k \in 1..Len(RawFacetFields) :
              Len(RawFacetFields[k][2]) < 2 =>
                  FacetFieldsNamed(RawFacetFields[k][1]) = {}
        /\ (\A k \in 1..Len(RawFacetFields) : Len(RawFacetFields[k][2]) < 2) =>
              fnOut.val.facets.isNone

\* Two facet fields in the reply, one of them a lone unpaired element, none
\* decoding to a value: the attribute is None.
C9_Witness ==
    /\ Normalized
    /\ Len(RawFacetFields) = 2
    /\ Len(RawFacetFields[1][2]) = 1
    /\ Len(RawFacetFields[2][2]) = 0
    /\ fnOut.val.facets.isNone

\* ------------------------------------------------------------------------
\* Claims about the query builder (SpecBuild)
\* ------------------------------------------------------------------------

\* search() has built the wire parameters of the request fnIn.
Built == fnOut # NoOutcome /\ fnOut.ok

\* The fields of a comma-joined str
RECURSIVE SplitTokens(_)
SplitTokens(s) ==
    IF s = <<>> THEN <<>>
    ELSE IF Len(s) = 1 THEN <<s[1]>>
    ELSE IF s[2] = "," THEN <<s[1]>> \o SplitTokens(SubSeq(s, 3, Len(s)))
    ELSE <<"<no separator>">>

HighlightKeys == {"hl", "hl.fl", "hl.simple.pre", "hl.simple.post"}

HighlightFieldsGiven ==
    ~fnIn.highlight_fields.isNone /\ fnIn.highlight_fields.v # <<>>

\* C10: the highlighting parameters follow three exclusive cases: fields
\* given and highlighting enabled: hl=true scoped to exactly those fields;
\* enabled and no fields given (None or empty list): hl=true scoped to "*";
\* disabled: no hl parameter at all, whatever fields were requested.
C10_HighlightCases ==
    Built =>
        /\ (config.highlight_enabled /\ HighlightFieldsGiven) =>
              /\ HighlightKeys \subseteq DOMAIN fnOut.params
              /\ fnOut.params["hl"] = "true"
              /\ SplitTokens(fnOut.params["hl.fl"]) = fnIn.highlight_fields.v
        /\ (config.highlight_enabled /\ ~HighlightFieldsGiven) =>
              /\ HighlightKeys \subseteq DOMAIN fnOut.params
              /\ fnOut.params["hl"] = "true"
              /\ fnOut.params["hl.fl"] = <<"*">>
        /\ ~config.highlight_enabled =>
              HighlightKeys \cap DOMAIN fnOut.params = {}

\* Highlighting disabled and two highlight fields requested: no hl parameter.
C10_Witness ==
    /\ Built
    /\ ~config.highlight_enabled
    /\ HighlightFieldsGiven
    /\ Len(fnIn.highlight_fields.v) = 2
    /\ "hl" \notin DOMAIN fnOut.params
    /\ "q" \in DOMAIN fnOut.params

\* The request fnIn with its return-field list left out.
WithoutFields == [fnIn EXCEPT !.fields = None]

FieldsEmptyOrAbsent == fnIn.fields.isNone \/ fnIn.fields.v = <<>>

\* C11: an empty return-field list and no return-field list give identical
\* wire parameters: the parameters built for a request with fields = [] are
\* those built for the same request with fields = None, and neither has an
\* fl parameter.
C11_EmptyFieldsAsAbsent ==
    (Built /\ FieldsEmptyOrAbsent) =>
        /\ "fl" \notin DOMAIN fnOut.params
        /\ fnOut.params = SearchParams(config, WithoutFields).params

\* An empty list given, with other options set, and no fl parameter built.
C11_Witness ==
    /\ Built
    /\ ~fnIn.fields.isNone
    /\ fnIn.fields.v = <<>>
    /\ "fl" \notin DOMAIN fnOut.params
    /\ "fq" \in DOMAIN fnOut.params

FiltersGiven == ~fnIn.filters.isNone /\ fnIn.filters.v # <<>>

\* C12: filters given: the fq parameter is the list of the filters, one
\* value per filter, in the caller's order and unmodified (never one joined
\* string); no filters given (None or an empty list): no fq parameter.
C12_FiltersRepeated ==
    Built =>
        /\ FiltersGiven =>
              /\ "fq" \in DOMAIN fnOut.params
              /\ Len(fnOut.params["fq"]) = Len(fnIn.filters.v)
              /\ \A i \in 1..Len(fnIn.filters.v) :
                    fnOut.params["fq"][i] = fnIn.filters.v[i]
        /\ ~FiltersGiven => "fq" \notin DOMAIN fnOut.params

\* The two filters of the round trip, each its own value.
C12_Witness ==
    /\ Built
    /\ FiltersGiven
    /\ fnOut.params["fq"] = <<"type:document", "status:published">>

\* ------------------------------------------------------------------------
\* Claims about the requests the server sends (SpecServer)
\* ------------------------------------------------------------------------

\* The call of task t has handed a search request to the transport.
SearchSent(t) == call[t].op = "search" /\ sent[t] = 1

\* C15: the row count of every request that search() sends to the engine
\* does not exceed config.max_rows, whether the caller gave it or it was
\* defaulted.
C15_RowsWithinMax ==
    \A t \in Tasks :
        SearchSent(t) => WireParams(config, call[t])["rows"] <= config.max_rows

\* The query argument of the tool call of task t is missing or empty.
EmptyQueryGiven(t) == call[t].tool # "" /\ ~TruthyStr(call[t].args.query)

\* C16: no request with an empty query string is sent to the engine: every
\* request sent by search() or suggest_query() carries a non-empty q, and a
\* tool call whose query is missing or empty ends with an error before any
\* client operation is called.
C16_NoEmptyQuerySent ==
    \A t \in Tasks :
        /\ (sent[t] = 1 /\ call[t].op \in {"search", "suggest_query"}) =>
              WireParams(config, call[t])["q"] # ""
        /\ EmptyQueryGiven(t) =>
              /\ call[t].op = "none"
              /\ sent[t] = 0
              /\ tpc[t] = "idle"
              /\ out[t].kind = "raise"
              /\ out[t].exc = "McpError"

\* A search tool call with query "" rejected, while the other task's
\* request with a query is with the engine.
C16_Witness ==
    \E t \in Tasks, u \in Tasks :
        /\ call[t].tool = "search"
        /\ ~call[t].args.query.isNone
        /\ call[t].args.query.v = ""
        /\ sent[t] = 0
        /\ out[t].kind = "raise"
        /\ tpc[u] = "inflight"
        /\ WireParams(config, call[u])["q"] = "solr"

\* ------------------------------------------------------------------------
\* More claims about the normalizer (SpecNorm)
\* ------------------------------------------------------------------------

\* C17: the identifier given to a document without an id field is a
\* function of the document's content alone: normalizing the same reply in
\* another run of the program (under another hash salt) gives every document
\* the identifier it has in this one.
C17_IdDeterministic ==
    Normalized =>
        \A seed \in HashSeeds :
            \A i \in 1..Len(fnIn.docs) :
                DocId(seed, fnIn.docs[i]) = fnOut.val.results[i].id

\* The raw reply has a facet count that is not an int.
FacetsMalformed(r) ==
    /\ ~r.facets.isNone
    /\ \E k \in 1..Len(r.facets.v) :
          \E i \in 1..Len(r.facets.v[k][2]) :
              i % 2 = 0 /\ r.facets.v[k][2][i].kind # "int"

\* The raw reply's spellcheck suggestions are not a mapping.
SpellcheckMalformed(r) == ~r.spellcheck.isNone /\ r.spellcheck.v.shape # "map"

\* C18: normalizing a reply does not fail because an optional section is
\* malformed: search() returns the documents and counts, with the attribute
\* of the malformed section absent.
C18_DegradesGracefully ==
    (fnOut # NoOutcome /\ (fnIn.docs = <<>> \/ fnIn.docsAreDicts)) =>
        /\ fnOut.kind = "return"
        /\ Len(fnOut.val.results) = Len(fnIn.docs)
        /\ fnOut.val.total_found = fnIn.hits
        /\ FacetsMalformed(fnIn) => fnOut.val.facets.isNone
        /\ SpellcheckMalformed(fnIn) => fnOut.val.suggestions.isNone

\* The highlight section of the raw reply has a non-empty entry for id.
HasFragments(id) ==
    /\ ~fnIn.highlighting.isNone
    /\ fnIn.highlighting.v # <<>>
    /\ id \in DOMAIN fnIn.highlighting.v
    /\ fnIn.highlighting.v[id] # <<>>

\* C19: a SearchResult carries exactly the highlight entry keyed by its own
\* identifier; a document with no entry or an empty entry, or any document
\* of a reply without highlight section, has highlighting None, never an
\* empty map.
C19_HighlightPerDocument ==
    Normalized =>
        \A i \in 1..Len(fnIn.docs) :
            LET result == fnOut.val.results[i]
            IN  /\ result.id = DocId(hashSeed, fnIn.docs[i])
                /\ IF HasFragments(result.id)
                   THEN /\ ~result.highlighting.isNone
                        /\ result.highlighting.v = fnIn.highlighting.v[result.id]
                   ELSE result.highlighting.isNone

\* Three documents, the second listed first in the highlight section: each
\* of the two with an id has its own fragments, the one without has None.
C19_Witness ==
    /\ Normalized
    /\ Len(fnIn.docs) = 3
    /\ fnOut.val.results[1].highlighting = Some(Fragments1)
    /\ fnOut.val.results[2].highlighting = Some(Fragments2)
    /\ fnOut.val.results[3].highlighting.isNone

\* The suggestions mapping of the response, empty when the attribute is None.
SuggestionList ==
    IF fnOut.val.suggestions.isNone THEN <<>> ELSE fnOut.val.suggestions.v

\* C20: the suggestions attribute maps each term of the reply whose entry
\* has a suggestion list to that list unchanged; a term whose entry lacks
\* the suggestion key is skipped; the attribute is None, never an empty
\* mapping, when no term qualifies.
C20_SuggestionsFlattened ==
    Normalized =>
        LET es == SpellEntries(fnIn)
        IN  /\ ~fnOut.val.suggestions.isNone => fnOut.val.suggestions.v # <<>>
            /\ \A i \in 1..Len(es) :
                  HasList(es[i]) =>
                      \E j \in 1..Len(SuggestionList) :
                          /\ SuggestionList[j][1] = es[i][1]
                          /\ SuggestionList[j][2] = es[i][2].suggestion
            /\ \A j \in 1..Len(SuggestionList) :
                  \E i \in 1..Len(es) :
                      HasList(es[i]) /\ es[i][1] = SuggestionList[j][1]
            /\ Len(SuggestionList) = Cardinality({i \in 1..Len(es) : HasList(es[i])})
            /\ (\A i \in 1..Len(es) : ~HasList(es[i])) => fnOut.val.suggestions.isNone

\* A spellcheck section in which no term has a suggestion list: None.
C20_Witness ==
    /\ Normalized
    /\ Len(SpellEntries(fnIn)) = 2
    /\ fnOut.val.suggestions.isNone

\* getattr(response, "start", 0) of the raw reply fnIn
ReportedStart == IF fnIn.start.isNone THEN 0 ELSE fnIn.start.v

\* C21: in every SearchResponse rows is the number of SearchResult entries,
\* there is one entry per document of the reply in the reply's order,
\* total_found is the engine's hit count and start the start offset of the
\* reply (0 for a reply object without one); rows may be 0 while
\* total_found > 0.
C21_CountsCopied ==
    Normalized =>
        /\ fnOut.val.rows = Len(fnOut.val.results)
        /\ Len(fnOut.val.results) = Len(fnIn.docs)
        /\ \A i \in 1..Len(fnIn.docs) :
              fnOut.val.results[i].id = DocId(hashSeed, fnIn.docs[i])
        /\ fnOut.val.total_found = fnIn.hits
        /\ fnOut.val.start = ReportedStart

\* A page at offset 20 of 42 matches that carries no document.
C21_Witness ==
    /\ Normalized
    /\ fnOut.val.rows = 0
    /\ fnOut.val.results = <<>>
    /\ fnOut.val.total_found = 42
    /\ fnOut.val.start = 20

\* The keys of the document doc other than "id" and "score".
OtherKeys(doc) == {k \in 1..Len(doc) : doc[k][1] \notin {"id", "score"}}

\* C22: for every document of a reply the SearchResult's id and score are
\* the document's id and score fields (score None when there is none), and
\* its field map holds exactly the document's other keys with their values:
\* neither "id" nor "score" is in it and no other key is lost.
C22_FieldsPromoted ==
    Normalized =>
        \A i \in 1..Len(fnIn.docs) :
            LET doc == fnIn.docs[i]
                result == fnOut.val.results[i]
            IN  /\ DocHas(doc, "id") =>
                      \E k \in 1..Len(doc) : doc[k] = <<"id", result.id>>
                /\ IF DocHas(doc, "score")
                   THEN /\ ~result.score.isNone
                        /\ \E k \in 1..Len(doc) : doc[k] = <<"score", result.score.v>>
                   ELSE result.score.isNone
                /\ \A j \in 1..Len(result.fields) :
                      /\ result.fields[j][1] \notin {"id", "score"}
                      /\ \E k \in OtherKeys(doc) : doc[k] = result.fields[j]
                /\ \A k \in OtherKeys(doc) :
                      \E j \in 1..Len(result.fields) : result.fields[j] = doc[k]
                /\ Len(result.fields) = Cardinality(OtherKeys(doc))

\* A document with id, score and a title: id and score promoted, the title
\* alone in the field map.
C22_Witness ==
    /\ Normalized
    /\ Len(fnIn.docs) = 1
    /\ fnOut.val.results[1].id = "d1"
    /\ fnOut.val.results[1].score = Some("1.5")
    /\ fnOut.val.results[1].fields = <<<<"title", "Solr">>>>

\* ------------------------------------------------------------------------
\* Claims about errors, construction and the frame of the operations (Spec)
\* ------------------------------------------------------------------------

C24_FirstSuccessEndsProbing ==
    pc = "ready" =>
        /\ probes \in 1..max_retries
        /\ probes = attempt + 1
        /\ waits = [i \in 1..(probes - 1) |-> 500 * i]
        /\ initError = NoOutcome
        /\ ~closed => solr = "Solr"

\* The second probe was the first to succeed: two probes, one wait of 500 ms.
C24_Witness ==
    /\ pc = "ready"
    /\ probes = 2
    /\ waits = <<500>>
    /\ solr = "Solr"
    /\ ~closed

\* ------------------------------------------------------------------------
\* Claims about the configuration (SpecConfig)
\* ------------------------------------------------------------------------

\* C25: SOLRConfig is rejected when timeout <= 0, when max_rows <= 0 or when
\* max_rows > 10000, and MCPConfig is rejected when port is outside
\* 1..65535; every accepted configuration has timeout >= 1,
\* 1 <= max_rows <= 10000 and 1 <= port <= 65535, and holds the numbers
\* given.
C25_RejectsOutOfRange ==
    /\ fnOut.solr # NoOutcome =>
          IF fnIn.timeout <= 0 \/ fnIn.max_rows <= 0 \/ fnIn.max_rows > 10000
          THEN /\ fnOut.solr.kind = "raise"
               /\ fnOut.solr.exc = "ValidationError"
          ELSE /\ fnOut.solr.kind = "return"
               /\ fnOut.solr.val.timeout = fnIn.timeout
               /\ fnOut.solr.val.max_rows = fnIn.max_rows
    /\ fnOut.solr.kind = "return" =>
          /\ fnOut.solr.val.timeout >= 1
          /\ fnOut.solr.val.max_rows \in 1..10000
    /\ fnOut.mcp # NoOutcome =>
          IF fnIn.port < 1 \/ fnIn.port > 65535
          THEN /\ fnOut.mcp.kind = "raise"
               /\ fnOut.mcp.exc = "ValidationError"
          ELSE /\ fnOut.mcp.kind = "return"
               /\ fnOut.mcp.val.port = fnIn.port
    /\ fnOut.mcp.kind = "return" => fnOut.mcp.val.port >= 1 /\ fnOut.mcp.val.port <= 65535

\* The largest max_rows and a timeout of one second are accepted, port 0 is
\* rejected.
C25_Witness ==
    /\ fnIn = [timeout |-> 1, max_rows |-> 10000, port |-> 0]
    /\ fnOut.solr = Returned([timeout |-> 1, max_rows |-> 10000])
    /\ fnOut.mcp.kind = "raise"

\* Two finished searches with the same request and the same answer of the
\* transport have the same outcome, whatever was called before either.
SameExchangeSameOutcome ==
    \A t, u \in Tasks :
        (/\ Idle(t) /\ call[t].op = "search"
         /\ Idle(u) /\ call[u].op = "search"
         /\ call[t].arg = call[u].arg
         /\ got[t] = got[u])
            => out[t] = out[u]

\* C26: no operation other than close() changes the client's state: no step
\* changes the configuration, the transport handle of a constructed client
\* changes only in a step in which close() is called for the first time, and
\* the outcome of a search depends only on its own request and the reply to
\* it, not on earlier calls.
C26_OnlyCloseChangesState ==
    [][/\ config' = config
       /\ (pc = "ready" /\ solr' # solr) =>
             /\ ~closed /\ closed'
             /\ solr' = "None"
             /\ \E t \in Tasks : call'[t].op = "close" /\ out'[t] = Returned(None)
       /\ SameExchangeSameOutcome']_vars

\* One search failed on the transport, the same search by the other task
\* returned, and the handle is still open.
C26_Witness ==
    /\ pc = "ready" /\ ~closed /\ solr = "Solr"
    /\ \E t, u \in Tasks :
          /\ Idle(t) /\ call[t].op = "search"
          /\ Idle(u) /\ call[u].op = "search"
          /\ call[t].arg = call[u].arg
          /\ got[t].kind = "exception" /\ out[t].kind = "raise"
          /\ got[u].kind = "reply" /\ out[u].kind = "return"

\* C27: for any interleaving of the searches of several tasks on one client,
\* possibly with a close() between them, each finished search either returns
\* the normalization of the reply the transport gave to its own request, or
\* raises SOLRQueryError; a search that had no reply of its own returns
\* nothing.
C27_SearchesIsolated ==
    \A t \in Tasks :
        (Idle(t) /\ call[t].op = "search") =>
            /\ out[t].kind \in {"return", "raise"}
            /\ out[t].kind = "raise" => out[t].exc = "SOLRQueryError"
            /\ out[t].kind = "return" =>
                  /\ sent[t] = 1
                  /\ got[t].kind = "reply"
                  /\ LET r == ProcessSearchResponse(got[t].reply, hashSeed)
                     IN  r.ok /\ out[t].val = r.v

\* Two tasks searched on the open client and each returned its own reply:
\* one the empty page of 7 matches, the other a page of two documents.
C27_Witness ==
    \E t, u \in Tasks :
        /\ Idle(t) /\ call[t].op = "search" /\ ~call[t].afterClose
        /\ Idle(u) /\ call[u].op = "search" /\ ~call[u].afterClose
        /\ out[t].kind = "return" /\ out[t].val.results = <<>>
        /\ out[t].val.total_found = 7
        /\ out[u].kind = "return" /\ Len(out[u].val.results) = 2
        /\ got[u].reply # got[t].reply

\* ------------------------------------------------------------------------
\* Claims about the errors of the tool calls (SpecServer)
\* ------------------------------------------------------------------------

\* The tool call of task t is invalid on its parameters: its name is not a
\* tool of the server, or it is a search tool call with no query or an
\* empty one.
InvalidOnParams(t) ==
    \/ call[t].tool \notin KnownTools
    \/ call[t].tool \in SearchTools /\ ~TruthyStr(call[t].args.query)

\* C28: a finished tool call that is invalid on its parameters ended with an
\* McpError of code INVALID_PARAMS, one in which the client raised a
\* SOLRClientError ended with an McpError of code INTERNAL_ERROR, and every
\* exception a tool call ends with is an McpError.
C28_InvalidParamsAnswered ==
    \A t \in Tasks :
        (Idle(t) /\ call[t].tool # "") =>
            /\ out[t].kind = "raise" => out[t].exc = "McpError"
            /\ InvalidOnParams(t) =>
                  /\ out[t].kind = "raise"
                  /\ out[t].val = <<"INVALID_PARAMS">>
            /\ (call[t].op = "search" /\ out[t].kind = "raise") =>
                  out[t].val = <<"INTERNAL_ERROR">>

\* ------------------------------------------------------------------------
\* Claims about run_server (SpecRun)
\* ------------------------------------------------------------------------

\* C29: once run_server has constructed the server, the client is closed
\* when run_server ends, however it ends: the serving loop returned, the
\* startup ping failed, STDIN was a terminal, the loop raised, or the task
\* was cancelled after the shutdown signal; the handle is then released.
C29_ClosedWhenRunServerEnds ==
    (srv.pc = "ended" /\ pc = "ready") =>
        /\ closed
        /\ solr = "None"
        /\ srv.end # NoOutcome

\* run_server was cancelled while a tool call was with the engine, and the
\* client is closed.
C29_Witness ==
    /\ srv.pc = "ended"
    /\ srv.end.exc = "CancelledError"
    /\ closed /\ solr = "None"
    /\ \E t \in Tasks : tpc[t] = "inflight"

\* C30: the server serves tool requests only when the health ping at the
\* start of run() returned True: when it returned False, run() raised
\* RuntimeError before the serving loop was entered, and no tool handler is
\* invoked then or later.
C30_NoServingWithoutPing ==
    /\ srv.pc = "serving" => srv.ping = Returned(TRUE)
    /\ (\E t \in Tasks : call[t] # NoCall) => srv.ping = Returned(TRUE)
    /\ srv.ping = Returned(FALSE) =>
          /\ srv.pc = "ended"
          /\ srv.end.kind = "raise"
          /\ srv.end.exc = "RuntimeError"
          /\ \A t \in Tasks : call[t] = NoCall /\ sent[t] = 0

\* The client was constructed on its second probe, the startup ping failed
\* and run_server ended without serving.
C30_Witness ==
    /\ pc = "ready"
    /\ probes = 2
    /\ srv.ping = Returned(FALSE)
    /\ srv.pc = "ended"
    /\ \A t \in Tasks : call[t] = NoCall

====
